---- MODULE Spec2Model ----
(***************************************************************************)
(* A model of github_scanner.py: the organization cache                    *)
(* (query_repos_cached, load_cache, store_cache), the paginated fetchers   *)
(* and the concurrent batch fetcher.                                       *)
(*                                                                         *)
(* One process runs at a time.  Its main thread is at `pc`; the asyncio    *)
(* tasks of a batch are in `tasks`.  The GitHub server and the file system *)
(* are the environment: every response and every write outcome is chosen   *)
(* from a small set.                                                       *)
(***************************************************************************)
EXTENDS Integers, Sequences, FiniteSets, TLC

VARIABLES
    scanner_cache,  \* the module-level dict: organization -> entry
    files,          \* the file system: cache file name -> file
    op,             \* the top-level function the process is running
    pc,             \* where the main thread is
    org,            \* github_organization of the running call
    github_token,   \* github_token of the running call
    previous_etag,  \* query_repos_cached's local
    current_etag,   \* query_repos_cached's local
    endpoint,       \* the (absolute) endpoint of the running paged fetch
    tasks,          \* the futures of the running batch, in creation order
    arrived,        \* the futures of the running batch, in completion order
    page1_result,   \* the paged fetch's response to its request of page 1
    page_number,    \* get_github_endpoint_paged_list's local
    result_list,    \* get_github_endpoint_paged_list's local
    reqlog,         \* the params of the requests the sequential fetch issued
    received,       \* the bodies the sequential fetch was given
    last_status,    \* the status of the last response the main thread was given
    endpoint_list,  \* the argument of the running parallel_get_github_endpoint
    team_url_results, \* fetch_team_infos's local, once its first batch is done
    repo_info_list, \* the argument of the running fetch_team_infos
    listing,        \* the server's listing of the organization's repositories
    github_prefix,  \* the arguments and the result of the last name query
    repo_name,
    ignore_list,
    name_result,
    ret,            \* what the last call returned to its caller
    gets,           \* GET and PATCH requests issued by the running call
    heads,          \* HEAD requests issued by the running call
    prev,           \* per organization: the call before the last one
    fetches,        \* per organization: full listing fetches of this process
    probed,         \* per organization: the ETags this process was given
    stored,         \* per organization: how the last write of its file ended
    ncalls          \* calls this process has made

cacheVars == <<scanner_cache, files>>
callVarsButPc == <<op, org, github_token, previous_etag, current_etag, endpoint>>
callVars  == <<callVarsButPc, pc>>
ghostVars == <<gets, heads, prev, fetches, probed, stored, ncalls>>
batchVars == <<tasks, arrived>>
seqVars == <<page_number, result_list, reqlog, received>>
nameVars == <<github_prefix, repo_name, ignore_list, name_result>>
engineVars == <<cacheVars, callVars, batchVars, page1_result, seqVars, last_status,
                endpoint_list, team_url_results, repo_info_list, listing,
                ret, ghostVars>>
vars == <<engineVars, nameVars>>

---------------------------------------------------------------------------
(* Bounds of the model *)

\* The largest last-page number a Link header announces.
MaxPages == 2
\* The calls one process makes before it ends.
MaxCalls == 2
\* The requests of one batch given to parallel_get_github_endpoint.
MaxBatch == 2
\* The last page a server fills before it answers with an empty page.
MaxSeqPages == 2
\* Lengths of the prefixes and repository names the name functions are given.
MaxPrefix == 1
MaxName == 5

---------------------------------------------------------------------------
(* The environment's values *)

Orgs == {"A", "B"}
\* ETag header values; the empty string is one of them.
ETags == {"", "e1", "e2"}
\* --token values: not given, or given.
GithubTokens == {"", "tok"}
HTTP_OK == 200
Statuses == {HTTP_OK, 404}
\* Decoded page bodies of the organization's listing, and of any other list.
OrgBodies == {<< >>, <<"r1">>}
ListBodies == {<< >>, <<"r1">>, <<"r2">>}
\* The outcomes of open(cache_name, 'w') and file.write(...).
WriteOutcomes == {"ok", "open_failed", "write_failed"}

\* A Link header is a sequence of links, each with the page number of its
\* URL and its rel.  NoLink: the response has no such header.
NoLink == [present |-> FALSE, links |-> << >>]
LinkOf(ls) == [present |-> TRUE, links |-> ls]
LastLink(n) == [page |-> n, rel |-> "last"]
LinkHeaders ==
    {NoLink, LinkOf(<< >>), LinkOf(<<LastLink(1), LastLink(2)>>)}
    \cup {LinkOf(<<[page |-> 2, rel |-> "next"], LastLink(n)>>) : n \in 0..MaxPages}

---------------------------------------------------------------------------
(* Locators.  A locator is a sequence of strings; the API origin is one    *)
(* string, and "https:" begins an absolute locator.                        *)

ApiBase == "https://api.github.com/"
IsAbsolute(url) == Len(url) > 0 /\ url[1] \in {ApiBase, "https://elsewhere/"}
\* if not url.startswith('https:'): url = 'https://api.github.com/' + url
Absolute(url) == IF IsAbsolute(url) THEN url ELSE <<ApiBase>> \o url
\* 'orgs/' + github_organization + '/repos'
OrgReposEndpoint(o) == <<"orgs/", o, "/repos">>
\* "%s?page=%d" % (endpoint, n)
PageUrl(e, n) == e \o <<"?page=", n>>

\* A repository as the listing describes it, the teams of a repository, and
\* the members of a team.
Repos ==
    {[full_name |-> "o/r1", html_url |-> "h1", teams_url |-> <<ApiBase, "repos/o/r1/teams">>],
     [full_name |-> "o/r2", html_url |-> "h2", teams_url |-> <<ApiBase, "repos/o/r2/teams">>]}
TeamBodies ==
    {<< >>,
     <<[members_url |-> <<ApiBase, "teams/t1/members", "{/member}">>]>>,
     <<[members_url |-> <<ApiBase, "teams/t2/members", "{/member}">>],
       [members_url |-> <<ApiBase, "teams/t1/members", "{/member}">>]>>}
MemberBodies == {<< >>, <<[login |-> "alice"]>>}

\* The bodies a request of operation o can be answered with; team_fetched says
\* that fetch_team_infos is in its second batch.
Bodies(o, team_fetched) ==
    CASE o = "org"   -> OrgBodies
      [] o = "teams" -> IF team_fetched THEN MemberBodies ELSE TeamBodies
      [] OTHER       -> ListBodies

---------------------------------------------------------------------------
(* JSON text.  A document is the sequence of its members <<key, value>>;   *)
(* a file that does not decode has json = FALSE.                           *)

KeyOrder == <<"Contents", "ETag">>

\* json.dumps(d, sort_keys=True, indent=2)
dict_to_pretty_json(d) ==
    LET ks == SelectSeq(KeyOrder, LAMBDA k : k \in DOMAIN d)
    IN  [i \in 1..Len(ks) |-> <<ks[i], d[ks[i]]>>]

\* json.loads(text): an object with the members of the text.
json_loads(text) ==
    LET keys == {text[i][1] : i \in 1..Len(text)}
        last(k) == CHOOSE i \in 1..Len(text) :
                      /\ text[i][1] = k
                      /\ \A j \in 1..Len(text) : text[j][1] = k => j <= i
    IN  [k \in keys |-> text[last(k)][2]]

---------------------------------------------------------------------------
(* The file system *)

NoFile == [exists |-> FALSE, readable |-> FALSE, json |-> FALSE, text |-> << >>]
TextFile(t) == [exists |-> TRUE, readable |-> TRUE, json |-> TRUE, text |-> t]
Garbage == [exists |-> TRUE, readable |-> TRUE, json |-> FALSE, text |-> << >>]

\* One file name for every organization.
cache_name_Shared(o) == <<".github-classroom-utils.", "", ".json">>

\* ".github-classroom-utils." + github_organization + ".json"
cache_name(o) == <<".github-classroom-utils.", o, ".json">>
CacheNames == {cache_name(o) : o \in Orgs}

Entry(e, c) == [ETag |-> e, Contents |-> c]

\* The cache files a process may find when it starts: none, one an earlier
\* run wrote, one that cannot be read, one that does not decode.
InitFiles ==
    {NoFile, Garbage,
     TextFile(dict_to_pretty_json(Entry("e1", <<"r1">>))),
     [TextFile(dict_to_pretty_json(Entry("e1", <<"r1">>))) EXCEPT !.readable = FALSE]}

---------------------------------------------------------------------------
(* scanner_cache helpers *)

EmptyCache == [o \in {} |-> << >>]
Put(cache, o, v) == [k \in DOMAIN cache \cup {o} |-> IF k = o THEN v ELSE cache[k]]

\* load_cache that never reads the file.
load_cache_Skip(cache, fs, o) == [ok |-> TRUE, cache |-> cache]

\* load_cache that reads the file even when the entry is in memory.
load_cache_Reload(cache, fs, o) ==
    LET f == fs[cache_name(o)]
    IN  IF f.exists /\ f.readable
        THEN IF f.json
             THEN [ok |-> TRUE, cache |-> Put(cache, o, json_loads(f.text))]
             ELSE [ok |-> FALSE, cache |-> cache]
        ELSE [ok |-> TRUE, cache |-> cache]

\* load_cache: [ok, cache].  ok = FALSE is exit(1) in the except clause.
load_cache(cache, fs, o) ==
    IF o \in DOMAIN cache
    THEN [ok |-> TRUE, cache |-> cache]
    ELSE LET f == fs[cache_name(o)]
         IN  IF f.exists /\ f.readable
             THEN IF f.json
                  THEN [ok |-> TRUE, cache |-> Put(cache, o, json_loads(f.text))]
                  ELSE [ok |-> FALSE, cache |-> cache]
             ELSE [ok |-> TRUE, cache |-> cache]

\* store_cache, with the outcome w of the write.
store_cache(cache, fs, o, w) ==
    IF o \notin DOMAIN cache
    THEN fs
    ELSE LET n == cache_name(o)
             f == fs[n]
         IN  CASE w = "ok" ->
                    [fs EXCEPT ![n] = [exists |-> TRUE,
                                       readable |-> IF f.exists THEN f.readable ELSE TRUE,
                                       json |-> TRUE,
                                       text |-> dict_to_pretty_json(cache[o])]]
               [] w = "write_failed" ->
                    [fs EXCEPT ![n] = [exists |-> TRUE,
                                       readable |-> IF f.exists THEN f.readable ELSE TRUE,
                                       json |-> FALSE,
                                       text |-> << >>]]
               [] OTHER -> fs

\* A check that lets every status pass.
fail_on_github_errors_Never(status) == FALSE

\* fail_on_github_errors / fail_on_github_errors_async: exit(1) or go on.
fail_on_github_errors(status) == status # HTTP_OK

\* Headers are built for an empty token as for any other.
github_headers_exits_Never(tok) == FALSE

\* github_headers: exit(1) on an empty token.
github_headers_exits(tok) == tok = ""

---------------------------------------------------------------------------
(* Return values *)

NoRet == [has |-> FALSE, from |-> "none", val |-> << >>]
Ret(from, v) == [has |-> TRUE, from |-> from, val |-> v]

NoPrev == [has |-> FALSE, etag |-> "", val |-> << >>]

NoPage1 == [has |-> FALSE, status |-> 0, link |-> NoLink, body |-> << >>]

\* team_url_results before the first batch of fetch_team_infos has returned.
NoMap == [has |-> FALSE, val |-> << >>]

---------------------------------------------------------------------------
(* The concurrent batch fetcher *)

\* _parallel_get_github_endpoint, the loop: one future per endpoint.
NewTasks(el) ==
    [i \in 1..Len(el) |->
        [key    |-> el[i].key,
         url    |-> Absolute(el[i].url),
         st     |-> "inflight",
         status |-> 0,
         body   |-> << >>]]

\* _fetch's result: {'key': key, 'url': url, 'body': json.loads(result)}
FetchResult(t) == [key |-> t.key, url |-> t.url, body |-> t.body]

\* The keys in the order of the futures, the bodies in the order of arrival.
gather_Crossed(ts) ==
    [i \in 1..Len(ts) |->
        [key |-> ts[i].key, url |-> ts[i].url, body |-> ts[arrived[i]].body]]

\* asyncio.gather(*tasks): the results in the order of the futures given.
gather(ts) == [i \in 1..Len(ts) |-> FetchResult(ts[i])]

\* The response that arrived last replaces the others of its key.
ResultMap_Arrival(responses) ==
    LET keys == {responses[i].key : i \in 1..Len(responses)}
        pos(i) == CHOOSE p \in 1..Len(arrived) : arrived[p] = i
        last(k) == CHOOSE i \in 1..Len(responses) :
                      /\ responses[i].key = k
                      /\ \A j \in 1..Len(responses) :
                            responses[j].key = k => pos(j) <= pos(i)
    IN  [k \in keys |-> responses[last(k)]]

\* {x['key']: x for x in responses}: a later x replaces an earlier one.
ResultMap(responses) ==
    LET keys == {responses[i].key : i \in 1..Len(responses)}
        last(k) == CHOOSE i \in 1..Len(responses) :
                      /\ responses[i].key = k
                      /\ \A j \in 1..Len(responses) : responses[j].key = k => j <= i
    IN  [k \in keys |-> responses[last(k)]]

\* The keys of {x['key']: x for x in responses} in the order a dict keeps
\* them: the order in which each key was first inserted.
KeysInOrder(responses) ==
    LET first(i) == \A j \in 1..(i - 1) : responses[j].key # responses[i].key
        idx == SelectSeq([i \in 1..Len(responses) |-> i], first)
    IN  [n \in 1..Len(idx) |-> responses[idx[n]].key]

---------------------------------------------------------------------------
(* fetch_team_infos: two batches, the second built from the first's result *)

\* [{'key': repo['html_url'], 'url': repo['teams_url']} for repo in repo_info_list]
TeamUrlRequests(repos) ==
    [i \in 1..Len(repos) |->
        [key |-> repos[i].html_url, url |-> repos[i].teams_url]]

\* re.sub('{/member}', '', url)
sub_member(url) == SelectSeq(url, LAMBDA x : x # "{/member}")

\* The second batch asking for the members of each key's last team.
MemberRequests_LastTeam(results, keys) ==
    LET ks == SelectSeq(keys, LAMBDA k : Len(results[k].body) > 0)
    IN  [n \in 1..Len(ks) |->
            [key |-> ks[n],
             url |-> sub_member(results[ks[n]].body[Len(results[ks[n]].body)].members_url)]]

\* The second batch: one request per key whose teams list is not empty, for
\* the members of its first team.
MemberRequests(results, keys) ==
    LET ks == SelectSeq(keys, LAMBDA k : Len(results[k].body) > 0)
    IN  [n \in 1..Len(ks) |->
            [key |-> ks[n], url |-> sub_member(results[ks[n]].body[1].members_url)]]

\* member_data_results[member]['team_members'] = [x['login'] for x in body]
WithTeamMembers(results) ==
    [k \in DOMAIN results |->
        [key  |-> results[k].key, url |-> results[k].url, body |-> results[k].body,
         team_members |-> [n \in 1..Len(results[k].body) |-> results[k].body[n].login]]]

---------------------------------------------------------------------------
(* The parallel paginated fetcher *)

\* Only the first rel="last" link is found, as a search would.
findall_last_First(link) ==
    LET ls == SelectSeq(link.links, LAMBDA l : l.rel = "last")
    IN  IF Len(ls) = 0 THEN << >> ELSE <<ls[1].page>>

\* re.compile('page=(\\d+)>; rel="last"').findall(link_header)
findall_last(link) ==
    LET ls == SelectSeq(link.links, LAMBDA l : l.rel = "last")
    IN  [i \in 1..Len(ls) |-> ls[i].page]

\* ["%s?page=%d" % (endpoint, n) for n in range(1, num_pages + 1)]
PageUrls(e, num_pages) == [n \in 1..num_pages |-> PageUrl(e, n)]

\* The pages in the order their responses arrived.
ordered_pages_Arrival(all_pages, urls) == [i \in 1..Len(urls) |-> tasks[arrived[i]].body]

\* [all_pages[url]['body'] for url in urls]
ordered_pages(all_pages, urls) == [i \in 1..Len(urls) |-> all_pages[urls[i]].body]

\* functools.reduce(lambda a, b: a + b, ordered_pages, [])
RECURSIVE joined_pages(_)
joined_pages(pages) ==
    IF pages = << >> THEN << >>
    ELSE joined_pages(SubSeq(pages, 1, Len(pages) - 1)) \o pages[Len(pages)]

---------------------------------------------------------------------------
(* The sequential paginated fetcher *)

\* params={'page': page_number} if page_number > 1 else {}
PageParams(n) == IF n > 1 THEN [page |-> n] ELSE [k \in {} |-> 0]

\* The page a request with these params asks the server for.
RequestedPage(params) == IF "page" \in DOMAIN params THEN params["page"] ELSE 1

\* A loop that stops on any page.
LastPage_Any(result_l) == TRUE

\* if len(result_l) == 0: break
LastPage(result_l) == Len(result_l) = 0

\* An accumulator that puts the new page first.
Accumulate_Front(list, result_l) == result_l \o list

\* result_list = result_list + result_l
Accumulate(list, result_l) == list \o result_l

---------------------------------------------------------------------------
(* query_repos_cached *)

\* A comparison that never finds the cache current.
CacheIsCurrent_Never(p, c) == FALSE

\* if previous_etag == current_etag:
CacheIsCurrent(p, c) == p = c

\* An entry that keeps the ETag it had.
NewEntry_Stale(p, c, list) == Entry(p, list)

\* scanner_cache[org] = {}; ['ETag'] = current_etag; ['Contents'] = all_repos_list
NewEntry(p, c, list) == Entry(c, list)

\* A store that does not look at the number of repositories.
ShouldStore_Always(list) == TRUE

\* if num_repos != 0: store_cache(...)
ShouldStore(list) == Len(list) # 0

\* What the main thread does with the list the paged fetch returned: in
\* query_repos_cached the cache entry is replaced and stored; a direct caller
\* gets the list.
PagedReturn(list, from, w) ==
    /\ pc' = "idle"
    /\ IF op = "org"
       THEN LET c == Put(scanner_cache, org, NewEntry(previous_etag, current_etag, list))
            IN  /\ scanner_cache' = c
                /\ files' = IF ShouldStore(list) THEN store_cache(c, files, org, w)
                            ELSE files
                /\ stored' = IF ShouldStore(list) THEN [stored EXCEPT ![org] = w]
                             ELSE stored
                /\ ret' = Ret("fetch", list)
       ELSE /\ ret' = Ret(from, list)
            /\ UNCHANGED <<cacheVars, stored>>

\* A call begins: the call before it is remembered in prev.
Remember ==
    IF ret.has /\ op = "org"
    THEN [prev EXCEPT ![org] = [has |-> TRUE, etag |-> current_etag, val |-> ret.val]]
    ELSE prev

\* query_repos_cached up to the HEAD request.
query_repos_cached(o, tok) ==
    /\ pc = "idle"
    /\ ncalls < MaxCalls
    /\ LET lc == load_cache(scanner_cache, files, o)
           known == o \in DOMAIN lc.cache
       IN  /\ op' = "org" /\ org' = o /\ github_token' = tok
           /\ ncalls' = ncalls + 1
           /\ prev' = Remember
           /\ ret' = NoRet /\ gets' = 0
           /\ tasks' = << >> /\ arrived' = << >> /\ page1_result' = NoPage1
           /\ page_number' = 0 /\ result_list' = << >>
           /\ reqlog' = << >> /\ received' = << >>
           /\ current_etag' = "" /\ endpoint' = << >>
           /\ last_status' = 0 /\ endpoint_list' = << >> /\ team_url_results' = NoMap
           /\ repo_info_list' = << >>
           /\ UNCHANGED <<nameVars, listing>>
           /\ scanner_cache' = lc.cache
           /\ UNCHANGED <<files, fetches, probed, stored>>
           /\ IF ~lc.ok \/ github_headers_exits(tok)
              THEN pc' = "exited" /\ previous_etag' = "" /\ heads' = 0
              ELSE IF known /\ "ETag" \notin DOMAIN lc.cache[o]
              THEN pc' = "raised" /\ previous_etag' = "" /\ heads' = 0
              ELSE /\ previous_etag' = IF known THEN lc.cache[o]["ETag"] ELSE ""
                   /\ pc' = "head" /\ heads' = 1

\* A HEAD response whose new ETag is written into the entry at once.
HeadResponse_Early(status, etag) ==
    /\ pc = "head"
    /\ last_status' = status
    /\ UNCHANGED <<endpoint_list, team_url_results, repo_info_list, nameVars, listing>>
    /\ UNCHANGED <<files, op, org, github_token, previous_etag, batchVars, page1_result,
                   seqVars, heads, prev, stored, ncalls>>
    /\ IF fail_on_github_errors(status)
       THEN pc' = "exited"
            /\ UNCHANGED <<scanner_cache, current_etag, endpoint, ret, gets, fetches, probed>>
       ELSE /\ current_etag' = etag
            /\ probed' = [probed EXCEPT ![org] = @ \cup {etag}]
            /\ scanner_cache' =
                  IF CacheIsCurrent(previous_etag, etag) THEN scanner_cache
                  ELSE Put(scanner_cache, org,
                           Entry(etag, IF org \in DOMAIN scanner_cache
                                       THEN scanner_cache[org]["Contents"] ELSE << >>))
            /\ IF CacheIsCurrent(previous_etag, etag)
               THEN /\ UNCHANGED <<endpoint, gets, fetches>>
                    /\ IF org \in DOMAIN scanner_cache
                          /\ "Contents" \in DOMAIN scanner_cache[org]
                       THEN pc' = "idle"
                            /\ ret' = Ret("cache", scanner_cache[org]["Contents"])
                       ELSE pc' = "raised" /\ UNCHANGED ret
               ELSE /\ endpoint' = Absolute(OrgReposEndpoint(org))
                    /\ pc' = "page1"
                    /\ gets' = gets + 1
                    /\ fetches' = [fetches EXCEPT ![org] = @ + 1]
                    /\ UNCHANGED ret

\* The HEAD response arrives: the ETags are compared, and the cached list is
\* returned or page 1 of the listing is requested.
HeadResponse(status, etag) ==
    /\ pc = "head"
    /\ last_status' = status
    /\ UNCHANGED <<endpoint_list, team_url_results, repo_info_list, nameVars, listing>>
    /\ UNCHANGED <<files, op, org, github_token, previous_etag, batchVars, page1_result,
                   seqVars, heads, prev, stored, ncalls>>
    /\ IF fail_on_github_errors(status)
       THEN pc' = "exited"
            /\ UNCHANGED <<scanner_cache, current_etag, endpoint, ret, gets, fetches, probed>>
       ELSE /\ current_etag' = etag
            /\ probed' = [probed EXCEPT ![org] = @ \cup {etag}]
            /\ UNCHANGED scanner_cache
            /\ IF CacheIsCurrent(previous_etag, etag)
               THEN /\ UNCHANGED <<endpoint, gets, fetches>>
                    /\ IF org \in DOMAIN scanner_cache
                          /\ "Contents" \in DOMAIN scanner_cache[org]
                       THEN pc' = "idle"
                            /\ ret' = Ret("cache", scanner_cache[org]["Contents"])
                       ELSE pc' = "raised" /\ UNCHANGED ret
               ELSE /\ endpoint' = Absolute(OrgReposEndpoint(org))
                    /\ pc' = "page1"
                    /\ gets' = gets + 1
                    /\ fetches' = [fetches EXCEPT ![org] = @ + 1]
                    /\ UNCHANGED ret

\* parallel_get_github_endpoint_paged_list up to the request of page 1.
parallel_get_github_endpoint_paged_list(e, tok) ==
    /\ pc = "idle"
    /\ op' = "paged" /\ github_token' = tok
    /\ endpoint' = Absolute(e)
    /\ ret' = NoRet /\ heads' = 0
    /\ tasks' = << >> /\ arrived' = << >> /\ page1_result' = NoPage1
    /\ page_number' = 0 /\ result_list' = << >>
    /\ reqlog' = << >> /\ received' = << >>
    /\ last_status' = 0 /\ endpoint_list' = << >> /\ team_url_results' = NoMap
    /\ repo_info_list' = << >>
    /\ UNCHANGED <<nameVars, listing>>
    /\ prev' = Remember
    /\ UNCHANGED <<cacheVars, org, previous_etag, current_etag, fetches, probed, stored, ncalls>>
    /\ IF github_headers_exits(tok)
       THEN pc' = "exited" /\ gets' = 0
       ELSE pc' = "page1" /\ gets' = 1

\* Page 1 arrives: the Link header gives the number of pages, and the batch
\* of page requests is dispatched.
Page1Response(status, link, body, w) ==
    /\ pc = "page1"
    /\ last_status' = status
    /\ UNCHANGED <<endpoint_list, team_url_results, repo_info_list, nameVars, listing>>
    /\ UNCHANGED <<callVarsButPc, seqVars, heads, prev, fetches, probed, ncalls, arrived>>
    /\ page1_result' = [has |-> TRUE, status |-> status, link |-> link, body |-> body]
    /\ IF fail_on_github_errors(status)
       THEN pc' = "exited" /\ UNCHANGED <<cacheVars, tasks, ret, gets, stored>>
       ELSE IF ~link.present
       THEN pc' = "raised" /\ UNCHANGED <<cacheVars, tasks, ret, gets, stored>>
       ELSE LET m == findall_last(link)
            IN  IF Len(m) # 1
                THEN PagedReturn(body, "page1", w) /\ UNCHANGED <<tasks, gets>>
                ELSE LET urls == PageUrls(endpoint, m[1])
                     IN  /\ tasks' = NewTasks([i \in 1..Len(urls) |->
                                                  [key |-> urls[i], url |-> urls[i]]])
                         /\ gets' = gets + Len(urls)
                         /\ pc' = "batch"
                         /\ UNCHANGED <<cacheVars, ret, stored>>

\* parallel_get_github_endpoint called by the script itself.  The futures run
\* in the order of their creation up to their request, so with an empty token
\* the first one exits in github_headers before anything is sent.
parallel_get_github_endpoint(el, tok) ==
    /\ pc = "idle"
    /\ op' = "many" /\ github_token' = tok
    /\ endpoint' = << >>
    /\ ret' = NoRet /\ heads' = 0
    /\ arrived' = << >> /\ page1_result' = NoPage1
    /\ page_number' = 0 /\ result_list' = << >>
    /\ reqlog' = << >> /\ received' = << >>
    /\ prev' = Remember
    /\ UNCHANGED <<cacheVars, org, previous_etag, current_etag, fetches, probed, stored, ncalls>>
    /\ tasks' = NewTasks(el)
    /\ last_status' = 0 /\ endpoint_list' = el /\ team_url_results' = NoMap
    /\ repo_info_list' = << >>
    /\ UNCHANGED <<nameVars, listing>>
    /\ IF Len(el) > 0 /\ github_headers_exits(tok)
       THEN pc' = "exited" /\ gets' = 0
       ELSE pc' = "batch" /\ gets' = Len(el)

\* A future that puts its page into the cache as soon as it has it.
Complete_Eager(i, status, body) ==
    /\ pc = "batch"
    /\ i \in 1..Len(tasks)
    /\ tasks[i].st = "inflight"
    /\ arrived' = Append(arrived, i)
    /\ UNCHANGED <<last_status, endpoint_list, team_url_results, repo_info_list, nameVars, listing>>
    /\ UNCHANGED <<files, callVarsButPc, page1_result, seqVars, ret, ghostVars>>
    /\ scanner_cache' =
          IF op = "org" /\ ~fail_on_github_errors(status)
          THEN Put(scanner_cache, org, Entry(current_etag, body))
          ELSE scanner_cache
    /\ IF fail_on_github_errors(status)
       THEN /\ tasks' = [tasks EXCEPT ![i] = [@ EXCEPT !.st = "failed", !.status = status]]
            /\ pc' = "exited"
       ELSE /\ tasks' = [tasks EXCEPT ![i] =
                            [@ EXCEPT !.st = "done", !.status = status, !.body = body]]
            /\ UNCHANGED pc

\* One future of the batch gets its response: _fetch decodes it, or exits.
Complete(i, status, body) ==
    /\ pc = "batch"
    /\ i \in 1..Len(tasks)
    /\ tasks[i].st = "inflight"
    /\ arrived' = Append(arrived, i)
    /\ UNCHANGED <<last_status, endpoint_list, team_url_results, repo_info_list, nameVars, listing>>
    /\ UNCHANGED <<cacheVars, callVarsButPc, page1_result, seqVars, ret, ghostVars>>
    /\ IF fail_on_github_errors(status)
       THEN /\ tasks' = [tasks EXCEPT ![i] = [@ EXCEPT !.st = "failed", !.status = status]]
            /\ pc' = "exited"
       ELSE /\ tasks' = [tasks EXCEPT ![i] =
                            [@ EXCEPT !.st = "done", !.status = status, !.body = body]]
            /\ UNCHANGED pc

\* A gather that gives up waiting: it returns whatever the futures have.
AllDone_Timeout(ts) == TRUE

\* await asyncio.gather(*tasks) returns when every future has its result.
AllDone(ts) == \A i \in 1..Len(ts) : ts[i].st = "done"

\* Every future is done: gather returns and the map is built.  A paged fetch
\* joins its pages; fetch_team_infos sends its second batch after the first,
\* and adds the team members after the second.
Gather(w) ==
    /\ pc = "batch"
    /\ AllDone(tasks)
    /\ UNCHANGED <<last_status, nameVars, listing>>
    /\ UNCHANGED <<callVarsButPc, page1_result, seqVars,
                   heads, prev, fetches, probed, ncalls>>
    /\ LET responses == gather(tasks)
           all_pages == ResultMap(responses)
       IN  CASE op = "many" ->
                  /\ pc' = "idle" /\ ret' = Ret("batch", all_pages)
                  /\ UNCHANGED <<cacheVars, stored, batchVars, gets,
                                 endpoint_list, team_url_results,
                                 repo_info_list>>
             [] op = "teams" /\ ~team_url_results.has ->
                  LET el == MemberRequests(all_pages, KeysInOrder(responses))
                  IN  /\ team_url_results' = [has |-> TRUE, val |-> all_pages]
                      /\ endpoint_list' = el
                      /\ tasks' = NewTasks(el) /\ arrived' = << >>
                      /\ gets' = gets + Len(el)
                      /\ UNCHANGED <<pc, ret, cacheVars, stored, repo_info_list>>
             [] op = "teams" /\ team_url_results.has ->
                  /\ pc' = "idle" /\ ret' = Ret("batch", WithTeamMembers(all_pages))
                  /\ UNCHANGED <<cacheVars, stored, batchVars, gets,
                                 endpoint_list, team_url_results,
                                 repo_info_list>>
             [] OTHER ->
                  LET urls == PageUrls(endpoint, Len(tasks))
                  IN  /\ PagedReturn(joined_pages(ordered_pages(all_pages, urls)), "batch", w)
                      /\ UNCHANGED <<batchVars, gets, endpoint_list, team_url_results,
                                 repo_info_list>>

\* fetch_team_infos up to the requests of its first batch.  As in every batch,
\* with an empty token the first future exits before anything is sent.
fetch_team_infos(repos, tok) ==
    /\ pc = "idle"
    /\ op' = "teams" /\ github_token' = tok
    /\ endpoint' = << >>
    /\ ret' = NoRet /\ heads' = 0
    /\ arrived' = << >> /\ page1_result' = NoPage1
    /\ page_number' = 0 /\ result_list' = << >>
    /\ reqlog' = << >> /\ received' = << >>
    /\ prev' = Remember
    /\ UNCHANGED <<cacheVars, org, previous_etag, current_etag, fetches, probed, stored, ncalls>>
    /\ last_status' = 0 /\ team_url_results' = NoMap
    /\ repo_info_list' = repos
    /\ UNCHANGED <<nameVars, listing>>
    /\ LET el == TeamUrlRequests(repos)
       IN  /\ endpoint_list' = el
           /\ tasks' = NewTasks(el)
           /\ IF Len(el) > 0 /\ github_headers_exits(tok)
              THEN pc' = "exited" /\ gets' = 0
              ELSE pc' = "batch" /\ gets' = Len(el)

\* get_github_endpoint up to its request.
get_github_endpoint(e, tok) ==
    /\ pc = "idle"
    /\ op' = "get" /\ github_token' = tok
    /\ endpoint' = Absolute(e)
    /\ ret' = NoRet /\ heads' = 0
    /\ tasks' = << >> /\ arrived' = << >> /\ page1_result' = NoPage1
    /\ page_number' = 0 /\ result_list' = << >>
    /\ reqlog' = << >> /\ received' = << >>
    /\ last_status' = 0 /\ endpoint_list' = << >> /\ team_url_results' = NoMap
    /\ repo_info_list' = << >>
    /\ UNCHANGED <<nameVars, listing>>
    /\ prev' = Remember
    /\ UNCHANGED <<cacheVars, org, previous_etag, current_etag, fetches, probed, stored, ncalls>>
    /\ IF github_headers_exits(tok)
       THEN pc' = "exited" /\ gets' = 0
       ELSE pc' = "get" /\ gets' = 1

\* The response of get_github_endpoint: checked, decoded and returned.
GetResponse(status, body) ==
    /\ pc = "get"
    /\ last_status' = status
    /\ UNCHANGED <<endpoint_list, team_url_results, repo_info_list, nameVars, listing>>
    /\ UNCHANGED <<cacheVars, callVarsButPc, batchVars, page1_result, seqVars, ghostVars>>
    /\ IF fail_on_github_errors(status)
       THEN pc' = "exited" /\ UNCHANGED ret
       ELSE pc' = "idle" /\ ret' = Ret("get", body)

\* make_repo_private up to its request: the headers are built, then the
\* PATCH is sent.
make_repo_private(repo, tok) ==
    /\ pc = "idle"
    /\ op' = "private" /\ github_token' = tok
    /\ endpoint' = <<ApiBase, "repos/", repo.full_name>>
    /\ ret' = NoRet /\ heads' = 0
    /\ tasks' = << >> /\ arrived' = << >> /\ page1_result' = NoPage1
    /\ page_number' = 0 /\ result_list' = << >>
    /\ reqlog' = << >> /\ received' = << >>
    /\ last_status' = 0 /\ endpoint_list' = << >> /\ team_url_results' = NoMap
    /\ repo_info_list' = << >>
    /\ UNCHANGED <<nameVars, listing>>
    /\ prev' = Remember
    /\ UNCHANGED <<cacheVars, org, previous_etag, current_etag, fetches, probed, stored, ncalls>>
    /\ IF github_headers_exits(tok)
       THEN pc' = "exited" /\ gets' = 0
       ELSE pc' = "patch" /\ gets' = 1

\* The response of the PATCH: requests.patch returns it, nobody looks at it,
\* and make_repo_private returns None.
PatchResponse(status) ==
    /\ pc = "patch"
    /\ last_status' = status
    /\ pc' = "idle" /\ ret' = Ret("none", << >>)
    /\ UNCHANGED <<endpoint_list, team_url_results, repo_info_list, nameVars, listing>>
    /\ UNCHANGED <<cacheVars, callVarsButPc, batchVars, page1_result, seqVars, ghostVars>>

\* get_github_endpoint_paged_list up to its first request.
get_github_endpoint_paged_list(e, tok) ==
    /\ pc = "idle"
    /\ op' = "seq" /\ github_token' = tok
    /\ endpoint' = Absolute(e)
    /\ ret' = NoRet /\ heads' = 0
    /\ tasks' = << >> /\ arrived' = << >> /\ page1_result' = NoPage1
    /\ result_list' = << >> /\ received' = << >>
    /\ page_number' = 1
    /\ last_status' = 0 /\ endpoint_list' = << >> /\ team_url_results' = NoMap
    /\ repo_info_list' = << >>
    /\ UNCHANGED <<nameVars, listing>>
    /\ prev' = Remember
    /\ UNCHANGED <<cacheVars, org, previous_etag, current_etag, fetches, probed, stored, ncalls>>
    /\ IF github_headers_exits(tok)
       THEN pc' = "exited" /\ gets' = 0 /\ reqlog' = << >>
       ELSE pc' = "seq" /\ gets' = 1 /\ reqlog' = <<PageParams(1)>>

\* The requested page arrives: the loop ends on an empty page, or the page is
\* appended and the next one requested.
SeqResponse(status, body) ==
    /\ pc = "seq"
    /\ Len(body) > 0 => page_number <= MaxSeqPages
    /\ last_status' = status
    /\ UNCHANGED <<endpoint_list, team_url_results, repo_info_list, nameVars, listing>>
    /\ UNCHANGED <<cacheVars, callVarsButPc, batchVars, page1_result,
                   heads, prev, fetches, probed, stored, ncalls>>
    /\ IF fail_on_github_errors(status)
       THEN pc' = "exited" /\ UNCHANGED <<seqVars, ret, gets>>
       ELSE /\ received' = Append(received, body)
            /\ page_number' = page_number + 1
            /\ IF LastPage(body)
               THEN /\ pc' = "idle" /\ ret' = Ret("seq", result_list)
                    /\ UNCHANGED <<result_list, reqlog, gets>>
               ELSE /\ result_list' = Accumulate(result_list, body)
                    /\ reqlog' = Append(reqlog, PageParams(page_number + 1))
                    /\ gets' = gets + 1
                    /\ UNCHANGED <<pc, ret>>

\* The process ends (returned from its last call, exited or raised) and the
\* next one starts: nothing but the files is kept.
Restart ==
    /\ pc \in {"idle", "exited", "raised"}
    /\ op # "none"
    /\ scanner_cache' = EmptyCache
    /\ UNCHANGED files
    /\ op' = "none" /\ pc' = "idle" /\ org' = "A" /\ github_token' = ""
    /\ previous_etag' = "" /\ current_etag' = "" /\ endpoint' = << >>
    /\ tasks' = << >> /\ arrived' = << >> /\ page1_result' = NoPage1
    /\ page_number' = 0 /\ result_list' = << >>
    /\ reqlog' = << >> /\ received' = << >>
    /\ ret' = NoRet
    /\ gets' = 0 /\ heads' = 0
    /\ prev' = [o \in Orgs |-> NoPrev]
    /\ fetches' = [o \in Orgs |-> 0]
    /\ probed' = [o \in Orgs |-> {}]
    /\ UNCHANGED stored
    /\ last_status' = 0 /\ endpoint_list' = << >> /\ team_url_results' = NoMap
    /\ repo_info_list' = << >>
    /\ UNCHANGED <<nameVars, listing>>
    /\ ncalls' = 0

---------------------------------------------------------------------------
(* Repository names.  A string is the sequence of its characters. *)

\* The characters of a GitHub repository name: letters, digits, '-', '.'.
Chars == {"a", "A", "1", "-", "."}
Digits == {"1"}
Strings(n) == UNION {[1..k -> Chars] : k \in 0..n}

\* str.lower()
lower(str) == [i \in 1..Len(str) |-> IF str[i] = "A" THEN "a" ELSE str[i]]

\* str.startswith(p)
startswith(str, p) == Len(p) <= Len(str) /\ SubSeq(str, 1, Len(p)) = p

\* The pattern pat matches str at offset i: of the characters of a name only
\* '.' is special in a pattern, and stands for any character.
MatchesAt(pat, str, i) ==
    /\ i + Len(pat) <= Len(str)
    /\ \A k \in 1..Len(pat) : pat[k] = "." \/ pat[k] = str[i + k]

\* The match furthest to the right instead of the leftmost one.
re_search_Rightmost(pat, str) ==
    LET offs == {i \in 0..Len(str) : MatchesAt(pat, str, i)}
    IN  IF offs = {} THEN [found |-> FALSE, group |-> << >>]
        ELSE LET i == CHOOSE x \in offs : \A y \in offs : y <= x
             IN  [found |-> TRUE, group |-> SubSeq(str, i + Len(pat) + 1, Len(str))]

\* re.search(pat + "(.*)$", str): the leftmost place where pat matches,
\* anywhere in str; group(1) is all that follows it.
re_search(pat, str) ==
    LET offs == {i \in 0..Len(str) : MatchesAt(pat, str, i)}
    IN  IF offs = {} THEN [found |-> FALSE, group |-> << >>]
        ELSE LET i == CHOOSE x \in offs : \A y \in offs : x <= y
             IN  [found |-> TRUE, group |-> SubSeq(str, i + Len(pat) + 1, Len(str))]

\* re.sub("-\\d+$", "", str): a dash followed by digits up to the end is cut.
sub_trailing_number(str) ==
    LET at == {i \in 1..(Len(str) - 1) :
                  /\ str[i] = "-"
                  /\ \A j \in (i + 1)..Len(str) : str[j] \in Digits}
    IN  IF at = {} THEN str
        ELSE SubSeq(str, 1, (CHOOSE i \in at : \A j \in at : i <= j) - 1)

\* A name without the prefix is given back whole.
student_name_from_Whole(prefix, name) ==
    LET m == re_search(prefix \o <<"-">>, name)
    IN  IF ~m.found THEN lower(name) ELSE lower(sub_trailing_number(m.group))

student_name_from(prefix, name) ==
    LET m == re_search(prefix \o <<"-">>, name)
    IN  IF ~m.found THEN << >> ELSE lower(sub_trailing_number(m.group))

\* The ignore list is compared as it was given.
desired_user_CaseSensitive(prefix, ignored, name) ==
    LET m == lower(student_name_from(prefix, name))
    IN  /\ m # << >>
        /\ startswith(name, prefix)
        /\ name # prefix
        /\ \A k \in 1..Len(ignored) : m # ignored[k]

desired_user(prefix, ignored, name) ==
    LET lower_case_ignore_list == [k \in 1..Len(ignored) |-> lower(ignored[k])]
        m == lower(student_name_from(prefix, name))
    IN  /\ m # << >>
        /\ startswith(name, prefix)
        /\ name # prefix
        /\ \A k \in 1..Len(lower_case_ignore_list) : m # lower_case_ignore_list[k]

\* No name function has been called yet.
NoName == [kind |-> "none", id |-> << >>, desired |-> FALSE]

\* A script asks for the student of repo_name.
StudentNameFrom ==
    /\ name_result.kind = "none"
    /\ name_result' = [kind |-> "name", id |-> student_name_from(github_prefix, repo_name),
                       desired |-> FALSE]
    /\ UNCHANGED <<engineVars, github_prefix, repo_name, ignore_list>>

\* A script asks whether repo_name is to be graded.
DesiredUser ==
    /\ name_result.kind = "none"
    /\ name_result' = [kind |-> "desired", id |-> << >>,
                       desired |-> desired_user(github_prefix, ignore_list, repo_name)]
    /\ UNCHANGED <<engineVars, github_prefix, repo_name, ignore_list>>

---------------------------------------------------------------------------
(* The organization cache: processes that call query_repos_cached *)

\* The organizations the scripts are run for.
CalledOrgs == {"A"}

\* A process that has just started: nothing is cached and nothing was called.
ProcessInit ==
    /\ scanner_cache = EmptyCache
    /\ op = "none" /\ pc = "idle" /\ org = "A" /\ github_token = ""
    /\ previous_etag = "" /\ current_etag = "" /\ endpoint = << >>
    /\ tasks = << >> /\ arrived = << >> /\ page1_result = NoPage1
    /\ page_number = 0 /\ result_list = << >>
    /\ reqlog = << >> /\ received = << >>
    /\ ret = NoRet
    /\ gets = 0 /\ heads = 0
    /\ prev = [o \in Orgs |-> NoPrev]
    /\ fetches = [o \in Orgs |-> 0]
    /\ probed = [o \in Orgs |-> {}]
    /\ stored = [o \in Orgs |-> "none"]
    /\ last_status = 0 /\ endpoint_list = << >> /\ team_url_results = NoMap
    /\ repo_info_list = << >>
    /\ ncalls = 0

EngineInit ==
    /\ ProcessInit
    /\ files \in [CacheNames -> InitFiles]
    /\ \A o \in Orgs \ CalledOrgs : files[cache_name(o)] = NoFile

Init ==
    /\ EngineInit
    /\ listing = << >>
    /\ github_prefix = << >> /\ repo_name = << >> /\ ignore_list = << >>
    /\ name_result = NoName

Next ==
    \/ \E o \in CalledOrgs, tok \in GithubTokens : query_repos_cached(o, tok)
    \/ \E s \in Statuses, e \in ETags : HeadResponse(s, e)
    \/ \E s \in Statuses, l \in LinkHeaders, b \in Bodies(op, team_url_results.has), w \in WriteOutcomes :
          Page1Response(s, l, b, w)
    \/ \E i \in 1..MaxPages, s \in Statuses, b \in Bodies(op, team_url_results.has) : Complete(i, s, b)
    \/ \E w \in WriteOutcomes : Gather(w)
    \/ Restart

Spec == Init /\ [][Next]_vars

---------------------------------------------------------------------------
(* The fetch engine: processes that call the fetchers themselves *)

ListEndpoints == {<<"repos/x/teams">>, <<ApiBase, "repos/x/teams">>}
BatchKeys == {"k1", "k2"}
BatchUrls == {<<"u1">>, <<ApiBase, "u2">>}
BatchRequests == [key : BatchKeys, url : BatchUrls]
EndpointLists == UNION {[1..n -> BatchRequests] : n \in 0..MaxBatch}
RepoLists == UNION {[1..n -> Repos] : n \in 0..MaxBatch}

NextFetch ==
    \/ \E e \in ListEndpoints, tok \in GithubTokens :
          parallel_get_github_endpoint_paged_list(e, tok)
    \/ \E e \in ListEndpoints, tok \in GithubTokens :
          get_github_endpoint_paged_list(e, tok)
    \/ \E l \in EndpointLists, tok \in GithubTokens :
          parallel_get_github_endpoint(l, tok)
    \/ \E l \in RepoLists, tok \in GithubTokens : fetch_team_infos(l, tok)
    \/ \E e \in ListEndpoints, tok \in GithubTokens : get_github_endpoint(e, tok)
    \/ \E s \in Statuses, b \in ListBodies : GetResponse(s, b)
    \/ \E r \in Repos, tok \in GithubTokens : make_repo_private(r, tok)
    \/ \E s \in Statuses : PatchResponse(s)
    \/ \E o \in CalledOrgs : query_repos_cached(o, "")
    \/ \E s \in Statuses, l \in LinkHeaders, b \in Bodies(op, team_url_results.has), w \in WriteOutcomes :
          Page1Response(s, l, b, w)
    \/ \E i \in 1..(MaxPages + MaxBatch), s \in Statuses, b \in Bodies(op, team_url_results.has) : Complete(i, s, b)
    \/ \E w \in WriteOutcomes : Gather(w)
    \/ \E s \in Statuses, b \in Bodies(op, team_url_results.has) : SeqResponse(s, b)
    \/ Restart

InitFetch == Init /\ \A n \in CacheNames : files[n] = NoFile

SpecFetch == InitFetch /\ [][NextFetch]_vars

\* The same processes when every request that was sent is answered in the
\* end, and the event loop resumes a gather whose futures are all done.
SpecFetchLive ==
    /\ SpecFetch
    /\ WF_vars(\E i \in 1..(MaxPages + MaxBatch), s \in Statuses,
                  b \in Bodies(op, team_url_results.has) : Complete(i, s, b))
    /\ WF_vars(\E w \in WriteOutcomes : Gather(w))

---------------------------------------------------------------------------
(* The organization cache against a server whose listing changes.  The     *)
(* ETag is a function of the listing, and every response is computed from  *)
(* the listing the server has when it answers.                             *)

\* A listing is the sequence of its pages.
Listings == {<<<<"r1">>, <<"r2">>>>, <<<<"r1">>, <<"r3">>>>}
ETagOf(l) == IF l = <<<<"r1">>, <<"r2">>>> THEN "e1" ELSE "e2"
ListingOf(e) == CHOOSE l \in Listings : ETagOf(l) = e
\* Page n of the listing l, empty beyond its last page.
PageOf(l, n) == IF n \in 1..Len(l) THEN l[n] ELSE << >>
\* The Link header of a page of l: a next link and the last page's number.
LinkFor(l) == LinkOf(<<[page |-> 2, rel |-> "next"], LastLink(Len(l))>>)

\* A repository is created, deleted or renamed between two requests.
ServerChange(l) ==
    /\ l # listing
    /\ listing' = l
    /\ UNCHANGED <<cacheVars, callVars, batchVars, page1_result, seqVars, last_status,
                   endpoint_list, team_url_results, repo_info_list, ret, ghostVars,
                   nameVars>>

NextServer ==
    \/ \E l \in Listings : ServerChange(l)
    \/ \E o \in CalledOrgs : query_repos_cached(o, "tok")
    \/ HeadResponse(HTTP_OK, ETagOf(listing))
    \/ \E w \in WriteOutcomes :
          Page1Response(HTTP_OK, LinkFor(listing), PageOf(listing, 1), w)
    \/ \E i \in 1..MaxPages : Complete(i, HTTP_OK, PageOf(listing, i))
    \/ \E w \in WriteOutcomes : Gather(w)
    \/ Restart

InitServer ==
    /\ EngineInit
    /\ \A n \in CacheNames : files[n] = NoFile
    /\ listing \in Listings
    /\ github_prefix = << >> /\ repo_name = << >> /\ ignore_list = << >>
    /\ name_result = NoName

SpecServer == InitServer /\ [][NextServer]_vars

---------------------------------------------------------------------------
(* The organization cache started on a file of any JSON content *)

\* Cache files that decode to an object: what an earlier run wrote, {} and
\* objects with one of the two fields.
ArbitraryFiles ==
    {NoFile,
     TextFile(dict_to_pretty_json(Entry("e1", <<"r1">>))),
     TextFile(<< >>),
     TextFile(<<<<"ETag", "e1">>>>),
     TextFile(<<<<"Contents", <<"r1">>>>>>)}

InitArbitrary ==
    /\ ProcessInit
    /\ files \in [CacheNames -> ArbitraryFiles]
    /\ \A o \in Orgs \ CalledOrgs : files[cache_name(o)] = NoFile
    /\ listing = << >>
    /\ github_prefix = << >> /\ repo_name = << >> /\ ignore_list = << >>
    /\ name_result = NoName

SpecArbitrary == InitArbitrary /\ [][Next]_vars

---------------------------------------------------------------------------
(* The organization cache of processes that call query_repos_cached for    *)
(* several organizations, each with repositories of its own.               *)

\* The one page of repositories the server lists for an organization.
OrgRecords(o) == IF o = "A" THEN <<"r1">> ELSE <<"rB">>
OrgBodiesOf(o) == {<< >>, OrgRecords(o)}
\* The cache files of an organization: none, or one an earlier run wrote.
OrgFilesOf(o) == {NoFile, TextFile(dict_to_pretty_json(Entry("e1", OrgRecords(o))))}

NextOrgs ==
    \/ \E o \in Orgs : query_repos_cached(o, "tok")
    \/ \E s \in Statuses, e \in ETags \ {""} : HeadResponse(s, e)
    \/ \E s \in Statuses, b \in OrgBodiesOf(org), w \in WriteOutcomes :
          Page1Response(s, LinkOf(<<LastLink(1)>>), b, w)
    \/ \E i \in 1..MaxPages, s \in Statuses, b \in OrgBodiesOf(org) : Complete(i, s, b)
    \/ \E w \in WriteOutcomes : Gather(w)
    \/ Restart

InitOrgs ==
    /\ ProcessInit
    /\ files \in [CacheNames -> UNION {OrgFilesOf(o) : o \in Orgs}]
    /\ \A o \in Orgs : files[cache_name(o)] \in OrgFilesOf(o)
    /\ listing = << >>
    /\ github_prefix = << >> /\ repo_name = << >> /\ ignore_list = << >>
    /\ name_result = NoName

SpecOrgs == InitOrgs /\ [][NextOrgs]_vars

\* The name functions applied to every prefix, name and ignore list.
Prefixes == Strings(MaxPrefix)
RepoNames == Strings(MaxName)
IgnoreLists == {<< >>, <<<<"A">>>>, <<<<"1">>, <<"a", "A">>>>}

InitNames ==
    /\ EngineInit
    /\ listing = << >>
    /\ \A n \in CacheNames : files[n] = NoFile
    /\ github_prefix \in Prefixes
    /\ repo_name \in RepoNames
    /\ ignore_list \in IgnoreLists
    /\ name_result = NoName

NextNames == StudentNameFrom \/ DesiredUser

SpecNames == InitNames /\ [][NextNames]_vars

---------------------------------------------------------------------------
(* Properties of the organization cache *)

\* The file of organization o decodes to the entry {e, c}.
FileHolds(o, e, c) ==
    LET f == files[cache_name(o)]
    IN  f.exists /\ f.json /\ json_loads(f.text) = Entry(e, c)

\* query_repos_cached has returned to the script.
Returned == pc = "idle" /\ op = "org" /\ ret.has

C2_Original ==
    (Returned /\ prev[org].has /\ previous_etag # current_etag)
        => /\ ret.from = "fetch" /\ gets >= 1
           /\ FileHolds(org, current_etag, ret.val)

\* C2 amended: when the probed ETag differs from the stored one, the call
\* re-fetches, and when the fetched list is not empty and the write succeeds
\* the file holds exactly the new ETag and the new list.
C2_Invalidation ==
    (Returned /\ previous_etag # current_etag)
        => /\ ret.from = "fetch" /\ gets >= 1
           /\ (ret.val # << >> /\ stored[org] = "ok")
                 => FileHolds(org, current_etag, ret.val)

\* A stored ETag was replaced by another, and the new entry was written.
C2_Witness ==
    /\ Returned /\ prev[org].has /\ previous_etag # current_etag
    /\ previous_etag # "" /\ ret.val # << >> /\ stored[org] = "ok"
    /\ FileHolds(org, current_etag, ret.val)

\* C3: a re-fetch that yields no record leaves every file as it was.
C3_EmptyNeverWritten ==
    [][(op = "org" /\ pc \in {"page1", "batch"} /\ pc' = "idle" /\ ret'.val = << >>)
          => files' = files]_vars

\* An empty re-fetch has returned beside a file holding a non-empty list
\* under an older ETag.
C3_Witness ==
    /\ Returned /\ ret.from = "fetch" /\ ret.val = << >>
    /\ LET f == files[cache_name(org)]
       IN  /\ f.exists /\ f.json
           /\ json_loads(f.text)["Contents"] # << >>
           /\ json_loads(f.text)["ETag"] # current_etag

\* C4 as stated: a process performs at most one full listing fetch for an
\* organization, whatever ETags the server returns.
C4_Original == \A o \in Orgs : fetches[o] <= 1

\* C4 amended: a process that is given the same ETag by every probe for an
\* organization performs at most one full listing fetch for it.
C4_OneFetchPerETag ==
    \A o \in Orgs : Cardinality(probed[o]) <= 1 => fetches[o] <= 1

\* Two calls were given the same ETag: the first fetched, the second did not.
C4_Witness ==
    /\ Returned /\ ncalls = 2 /\ Cardinality(probed[org]) = 1
    /\ fetches[org] = 1 /\ ret.from = "cache"

\* C5 as stated: the cached list is returned only from a stored entry whose
\* ETag equals the probed one; in every other case, with no entry stored and
\* an empty probed ETag too, the listing is re-fetched and the entry becomes
\* {probed ETag, fetched list}.
C5_MismatchRefetches ==
    (op = "org" /\ heads = 1 /\ pc \in {"page1", "batch", "raised", "idle"})
        => /\ (ret.has /\ ret.from = "cache")
                 => /\ org \in DOMAIN scanner_cache
                    /\ scanner_cache[org]["ETag"] = current_etag
           /\ (ret.has /\ ret.from = "fetch")
                 => scanner_cache[org] = Entry(current_etag, ret.val)
           /\ (pc # "idle" /\ ~(/\ org \in DOMAIN scanner_cache
                                /\ "ETag" \in DOMAIN scanner_cache[org]
                                /\ scanner_cache[org]["ETag"] = current_etag))
                 => gets >= 1

\* C6: the first call of a new process, when the file a process wrote can be
\* read and the probe returns the ETag in it, returns the list in the file
\* and issues no listing GET.
C6_SurvivesRestart ==
    [][(/\ pc = "head" /\ op = "org" /\ ncalls = 1
        /\ stored[org] = "ok"
        /\ files[cache_name(org)].readable
        /\ pc' \notin {"head", "exited"}
        /\ current_etag' = json_loads(files[cache_name(org)].text)["ETag"])
          => /\ pc' = "idle" /\ ret'.from = "cache" /\ gets' = 0
             /\ ret'.val = json_loads(files[cache_name(org)].text)["Contents"]]_vars

\* A list that only a process can have written came back from the file.
C6_Witness ==
    /\ Returned /\ ncalls = 1 /\ ret.from = "cache" /\ gets = 0
    /\ stored[org] = "ok" /\ ret.val = <<"r1", "r1">>
    /\ FileHolds(org, current_etag, ret.val)

---------------------------------------------------------------------------
(* Properties of the fetch engine *)

\* The bodies the futures 1..n were given, joined in the order of the futures.
RECURSIVE BodiesUpTo(_)
BodiesUpTo(n) == IF n = 0 THEN << >> ELSE BodiesUpTo(n - 1) \o tasks[n].body

\* The bodies the sequential fetch was given first to n-th, joined.
RECURSIVE ReceivedUpTo(_)
ReceivedUpTo(n) == IF n = 0 THEN << >> ELSE ReceivedUpTo(n - 1) \o received[n]

\* C7: when the Link header announces N pages, the parallel paged fetch
\* requests pages 1..N and returns their bodies joined in page-number order,
\* in whatever order the N responses arrived.
C7_PageOrder ==
    (op = "paged" /\ pc = "idle" /\ ret.has /\ ret.from = "batch")
        => /\ \A i \in 1..Len(tasks) : tasks[i].url = PageUrl(endpoint, i)
           /\ ret.val = BodiesUpTo(Len(tasks))

\* Page 2 arrived before page 1, and the list has page 1 first.
C7_Witness ==
    /\ op = "paged" /\ pc = "idle" /\ ret.has /\ ret.from = "batch"
    /\ Len(tasks) = 2 /\ arrived = <<2, 1>>
    /\ tasks[1].body = <<"r1">> /\ tasks[2].body = <<"r2">>
    /\ ret.val = <<"r1", "r2">>

\* C8: the sequential paged fetch requests pages 1, 2, 3, ... one at a time;
\* it is running exactly while every page it was given was non-empty; it
\* returns on the first empty page k, having requested no page after k, with
\* pages 1..k-1 joined in page order; it exits on a failed request.
C8_Sequential ==
    (op = "seq" /\ github_token # "")
        => /\ \A i \in 1..Len(reqlog) : RequestedPage(reqlog[i]) = i
           /\ \A i \in 1..(Len(received) - 1) : received[i] # << >>
           /\ pc \in {"seq", "idle", "exited"}
           /\ pc \in {"seq", "exited"}
                 => /\ Len(reqlog) = Len(received) + 1
                    /\ \A i \in 1..Len(received) : received[i] # << >>
                    /\ ~ret.has
           /\ pc = "idle"
                 => /\ ret.has
                    /\ Len(received) >= 1 /\ received[Len(received)] = << >>
                    /\ Len(reqlog) = Len(received)
                    /\ ret.val = ReceivedUpTo(Len(received) - 1)

\* Two pages and then an empty one: the two are returned, in order.
C8_Witness ==
    /\ op = "seq" /\ pc = "idle" /\ ret.has
    /\ received = << <<"r1">>, <<"r2">>, << >> >>
    /\ Len(reqlog) = 3
    /\ ret.val = <<"r1", "r2">>

C10_BatchAtomicity ==
    (\E i \in 1..Len(tasks) : tasks[i].status \notin {0, HTTP_OK})
        => (pc = "exited" /\ ~ret.has)

\* The second request succeeded first, then the first one failed.
C10_Witness ==
    /\ op = "many" /\ pc = "exited" /\ ~ret.has
    /\ Len(tasks) = 2 /\ arrived = <<2, 1>>
    /\ tasks[2].st = "done" /\ tasks[2].status = HTTP_OK
    /\ tasks[1].st = "failed" /\ tasks[1].status # HTTP_OK

---------------------------------------------------------------------------
(* Claims about the batch fetcher's result map *)

\* parallel_get_github_endpoint has returned its map to the script.
BatchReturned == op = "many" /\ pc = "idle" /\ ret.has

\* The result of the i-th request of the batch, as _fetch builds it.
ResultOf(i) == [key |-> endpoint_list[i].key, url |-> tasks[i].url, body |-> tasks[i].body]

\* The i-th request is the last one of the input that carries its key.
LastOfKey(i) ==
    \A j \in 1..Len(endpoint_list) :
        endpoint_list[j].key = endpoint_list[i].key => j <= i

\* C11: when requests of one batch share a key and all succeed, the returned
\* map has one entry for that key, and it is the result of the request that
\* comes later in the input sequence, in whatever order the responses arrived.
C11_LaterRequestWins ==
    BatchReturned =>
        \A i, j \in 1..Len(endpoint_list) :
            (i < j /\ endpoint_list[i].key = endpoint_list[j].key /\ LastOfKey(j)) =>
                /\ endpoint_list[j].key \in DOMAIN ret.val
                /\ ret.val[endpoint_list[j].key] = ResultOf(j)

\* Two requests with one key, the later one answered first with another body.
C11_Witness ==
    /\ BatchReturned
    /\ Len(endpoint_list) = 2
    /\ endpoint_list[1].key = endpoint_list[2].key
    /\ arrived = <<2, 1>>
    /\ tasks[1].body # tasks[2].body
    /\ ret.val[endpoint_list[1].key].body = tasks[2].body

\* The keys of the batch are pairwise distinct.
DistinctKeys ==
    \A i, j \in 1..Len(endpoint_list) :
        endpoint_list[i].key = endpoint_list[j].key => i = j

\* C12: when the keys of a batch are pairwise distinct and every request
\* succeeds, the key set of the returned map is the set of input keys, and the
\* entry of a key holds that key and the decoded body of the response to that
\* request's locator, for every completion order.
C12_KeyedByRequest ==
    (BatchReturned /\ DistinctKeys) =>
        /\ DOMAIN ret.val = {endpoint_list[i].key : i \in 1..Len(endpoint_list)}
        /\ \A i \in 1..Len(endpoint_list) :
              /\ ret.val[endpoint_list[i].key].key = endpoint_list[i].key
              /\ ret.val[endpoint_list[i].key].body = tasks[i].body

\* Two keys, the second request answered first, the two bodies different.
C12_Witness ==
    /\ BatchReturned /\ DistinctKeys
    /\ Len(endpoint_list) = 2
    /\ arrived = <<2, 1>>
    /\ tasks[1].body # tasks[2].body
    /\ ret.val[endpoint_list[2].key].body = tasks[2].body

\* C19: every entry of the map parallel_get_github_endpoint returns keeps
\* the 'key' and the 'url' of its request as they were given, relative
\* locators as well as absolute URLs, and adds 'body'.
C19_PreservesRequest ==
    (BatchReturned /\ DistinctKeys) =>
        \A i \in 1..Len(endpoint_list) :
            LET x == ret.val[endpoint_list[i].key]
            IN  /\ DOMAIN x = {"key", "url", "body"}
                /\ x.key = endpoint_list[i].key
                /\ x.url = endpoint_list[i].url

---------------------------------------------------------------------------
(* Claims about the token and about failed requests *)

\* The call was given an empty token.
EmptyToken == op # "none" /\ github_token = ""

\* C13 as stated: with an empty token every engine operation ends fatally,
\* and no request is issued.
C13_Original ==
    EmptyToken => (pc = "exited" /\ gets = 0 /\ heads = 0)

\* C13: with an empty token no request is ever issued, and every engine
\* operation ends fatally, except a batch of no requests (of
\* parallel_get_github_endpoint or fetch_team_infos), which returns an empty map.
C13_EmptyTokenFatal ==
    EmptyToken =>
        /\ gets = 0 /\ heads = 0
        /\ \/ pc = "exited"
           \/ /\ op \in {"many", "teams"}
              /\ Len(endpoint_list) = 0
              /\ pc \in {"batch", "idle"}
              /\ ret.has => ret.val = << >>

\* make_repo_private with an empty token has exited before its PATCH.
C13_Witness ==
    /\ EmptyToken /\ op = "private"
    /\ pc = "exited" /\ gets = 0

\* C14: a status other than 200 on any call ends the whole operation
\* fatally; no operation goes on or returns after it.
C14_Non200Fatal ==
    (\/ last_status \notin {0, HTTP_OK}
     \/ \E i \in 1..Len(tasks) : tasks[i].status \notin {0, HTTP_OK})
        => (pc = "exited" /\ ~ret.has)

---------------------------------------------------------------------------
(* Claims about the name functions *)

\* The number of digits str ends with.
RECURSIVE TrailingDigits(_)
TrailingDigits(str) ==
    IF Len(str) > 0 /\ str[Len(str)] \in Digits
    THEN 1 + TrailingDigits(SubSeq(str, 1, Len(str) - 1))
    ELSE 0

\* str without its one trailing "-<digits>", if it ends with one.
WithoutSuffix(str) ==
    LET d == TrailingDigits(str)
    IN  IF d > 0 /\ Len(str) > d /\ str[Len(str) - d] = "-"
        THEN SubSeq(str, 1, Len(str) - d - 1)
        ELSE str

\* str with every upper-case letter replaced by its lower-case one.
LowerCased(str) == [i \in 1..Len(str) |-> IF str[i] = "A" THEN "a" ELSE str[i]]

\* repo_name is github_prefix, a dash, and a rest.
HasPrefixDash == startswith(repo_name, github_prefix \o <<"-">>)
Rest == SubSeq(repo_name, Len(github_prefix) + 2, Len(repo_name))

\* C15: for a repo_name of the form prefix + "-" + rest, student_name_from
\* returns rest without one trailing "-<digits>" (if it has one), lower-cased.
C15_StudentOfPrefixedName ==
    (name_result.kind = "name" /\ HasPrefixDash) =>
        name_result.id = LowerCased(WithoutSuffix(Rest))

\* ("a", "a-A-1") gives "a", as ("hw1", "hw1-alice-2") gives "alice".
C15_Witness ==
    /\ name_result.kind = "name"
    /\ github_prefix = <<"a">>
    /\ repo_name = <<"a", "-", "A", "-", "1">>
    /\ name_result.id = <<"a">>

\* C16 as stated: student_name_from returns the empty string for every
\* repo_name that does not begin with the prefix followed by a dash.
C16_Original ==
    (name_result.kind = "name" /\ ~HasPrefixDash) => name_result.id = << >>

\* Some part of repo_name is the prefix followed by a dash, a '.' of the
\* prefix standing for any character.
OccursInName ==
    \E i \in 0..Len(repo_name) :
        LET q == github_prefix \o <<"-">>
        IN  /\ i + Len(q) <= Len(repo_name)
            /\ \A k \in 1..Len(q) :
                  \/ repo_name[i + k] = q[k]
                  \/ k <= Len(github_prefix) /\ github_prefix[k] = "."

\* C16: student_name_from returns the empty string for every repo_name no
\* part of which is the prefix, read as a pattern, followed by a dash.
C16_EmptyWithoutPrefix ==
    (name_result.kind = "name" /\ ~OccursInName) => name_result.id = << >>

\* ("a", "1A-1") gives "", as ("hw1", "other-repo") does.
C16_Witness ==
    /\ name_result.kind = "name"
    /\ github_prefix = <<"a">>
    /\ repo_name = <<"1", "A", "-", "1">>
    /\ ~OccursInName
    /\ name_result.id = << >>

\* Two strings are equal when case is ignored.
EqualIgnoringCase(x, y) ==
    /\ Len(x) = Len(y)
    /\ \A i \in 1..Len(x) : LowerCased(<<x[i]>>) = LowerCased(<<y[i]>>)

\* C17: desired_user is true exactly when student_name_from's result is not
\* empty, repo_name starts with the prefix, repo_name is not the prefix, and
\* the result equals no element of ignore_list when case is ignored.
C17_DesiredUser ==
    name_result.kind = "desired" =>
        (name_result.desired <=>
            LET id == student_name_from(github_prefix, repo_name)
            IN  /\ id # << >>
                /\ startswith(repo_name, github_prefix)
                /\ repo_name # github_prefix
                /\ \A k \in 1..Len(ignore_list) : ~EqualIgnoringCase(id, ignore_list[k]))

\* "a-a" is refused because the list ignores "A".
C17_Witness ==
    /\ name_result.kind = "desired"
    /\ github_prefix = <<"a">>
    /\ repo_name = <<"a", "-", "a">>
    /\ ignore_list = <<<<"A">>>>
    /\ ~name_result.desired

---------------------------------------------------------------------------
(* Claims about the cache-hit call and the first load *)

\* The step that begins a query_repos_cached call and sends its HEAD probe.
ProbeSent == pc = "idle" /\ pc' = "head" /\ op' = "org"

\* The step in which the HEAD response is found to match the stored ETag.
HitStep == pc = "head" /\ pc' = "idle" /\ ret'.has /\ ret'.from = "cache"

\* C18: a query_repos_cached call that is a cache hit issues one request,
\* the HEAD probe, leaves the entry in memory as it was (or as it was loaded
\* from the file, when memory had none), and does not write the file.
C18_HitIsReadOnly ==
    [][/\ ProbeSent =>
            /\ files' = files
            /\ org' \in DOMAIN scanner_cache => scanner_cache' = scanner_cache
       /\ HitStep =>
            /\ heads' = 1 /\ gets' = 0
            /\ scanner_cache' = scanner_cache
            /\ files' = files]_vars

\* A hit has returned the stored contents after its one HEAD.
C18_Witness ==
    /\ Returned /\ ret.from = "cache"
    /\ heads = 1 /\ gets = 0
    /\ ret.val = scanner_cache[org]["Contents"]

\* The first query_repos_cached call of a process, given a token, is under
\* way or has ended without returning; the file is as the call found it.
FirstLoad == op = "org" /\ ncalls = 1 /\ github_token # "" /\ pc # "idle"

\* C20: on the first load for an organization, a cache file that is missing
\* or unreadable makes the call a cache miss, which goes on to the probe and
\* the full fetch, and a file that is there but does not decode ends the call
\* fatally before any request.
C20_InitialLoad ==
    FirstLoad =>
        LET f == files[cache_name(org)]
        IN  /\ (f.exists /\ f.readable /\ ~f.json) =>
                  (pc = "exited" /\ heads = 0 /\ gets = 0)
            /\ (~f.exists \/ ~f.readable) =>
                  /\ heads = 1
                  /\ \/ pc = "head"
                     \/ pc = "exited" /\ last_status # HTTP_OK
                     \/ gets >= 1

---------------------------------------------------------------------------
(* Claims about what a re-fetch leaves in the cache *)

\* The last write of the organization's file failed.
WriteFailed == stored[org] \in {"open_failed", "write_failed"}

\* C21: when the write of the cache file fails after a full re-fetch that
\* was not empty, query_repos_cached does not abort: it returns the fetched
\* list, the entry in memory holds the new ETag and the list, and a later call
\* of the process that is given the same ETag is a cache hit.
C21_WriteFailureGoesOn ==
    /\ (Returned /\ ret.from = "fetch" /\ ret.val # << >> /\ WriteFailed) =>
          scanner_cache[org] = Entry(current_etag, ret.val)
    /\ (Returned /\ WriteFailed /\ prev[org].has /\ prev[org].etag = current_etag) =>
          (ret.from = "cache" /\ gets = 0 /\ ret.val = prev[org].val)
    /\ (op = "org" /\ pc = "exited" /\ gets >= 1) =>
          \/ last_status # HTTP_OK
          \/ \E i \in 1..Len(tasks) : tasks[i].st = "failed"

\* The only fetch of the process could not write its list, and the next call
\* was served that list from memory.
C21_Witness ==
    /\ Returned /\ ncalls = 2 /\ fetches[org] = 1
    /\ stored[org] = "write_failed"
    /\ prev[org].has /\ prev[org].etag = current_etag
    /\ ret.from = "cache" /\ ret.val # << >>
    /\ ~FileHolds(org, current_etag, ret.val)

\* C23: an empty re-fetch is not kept as a valid cache state: once a process
\* has re-fetched, no call of it is a cache hit that returns an empty list.
C23_EmptyNotRetained ==
    (Returned /\ ret.from = "cache" /\ fetches[org] >= 1) => ret.val # << >>

\* query_repos_cached is between its HEAD request and its end.
Running == op = "org" /\ pc \in {"head", "page1", "batch"}

\* C24: when a query_repos_cached call ends fatally on a HEAD or page
\* response that is not 200, the entry in memory and the file are as the call
\* found them (the entry as load_cache left it): nothing is replaced before
\* the whole listing has been fetched.
C24_FatalLeavesCache ==
    [][/\ ProbeSent =>
            /\ files' = files
            /\ org' \in DOMAIN scanner_cache => scanner_cache' = scanner_cache
       /\ (Running /\ pc' # "idle") =>
            (scanner_cache' = scanner_cache /\ files' = files)]_vars

\* A page request failed in a call that had found an older entry, which is
\* still in memory and in the file.
C24_Witness ==
    /\ op = "org" /\ pc = "exited"
    /\ \E i \in 1..Len(tasks) : tasks[i].st = "failed"
    /\ org \in DOMAIN scanner_cache
    /\ scanner_cache[org]["ETag"] = previous_etag
    /\ previous_etag # current_etag
    /\ FileHolds(org, previous_etag, scanner_cache[org]["Contents"])

\* Some request of the batch has no response yet.
InFlight == pc = "batch" /\ \E i \in 1..Len(tasks) : tasks[i].st = "inflight"

\* C26: scanner_cache is neither read nor written while a request of a batch
\* is in flight: the stored ETag and Contents are read before page 1 is
\* requested (Contents only in a call that requests no page), and the entry is
\* replaced and the file written only when every request is done.
C26_CacheOutsideBatch ==
    /\ [][(op = "org" /\ InFlight) =>
             /\ scanner_cache' = scanner_cache /\ files' = files
             /\ previous_etag' = previous_etag]_vars
    /\ [][(Running /\ (scanner_cache' # scanner_cache \/ files' # files)) =>
             \A i \in 1..Len(tasks) : tasks[i].st = "done"]_vars
    /\ []((op = "org" /\ ret.has /\ ret.from = "cache") => (gets = 0 /\ tasks = << >>))

\* One page is in, another is still awaited, and the older entry is in place.
C26_Witness ==
    /\ op = "org" /\ InFlight
    /\ \E i \in 1..Len(tasks) : tasks[i].st = "done"
    /\ org \in DOMAIN scanner_cache
    /\ scanner_cache[org]["ETag"] = previous_etag
    /\ previous_etag # current_etag

---------------------------------------------------------------------------
(* Claims about the Link header, the batch's end and the team fetch *)

\* The number of rel="last" links in page 1's Link header.
LastCount ==
    Cardinality({i \in 1..Len(page1_result.link.links) :
                    page1_result.link.links[i].rel = "last"})

\* Page 1 came with status 200 and a Link header that has no rel="last"
\* link, or more than one.
MalformedLink ==
    /\ op = "paged" /\ page1_result.has
    /\ page1_result.status = HTTP_OK
    /\ page1_result.link.present
    /\ LastCount # 1

\* C25: when page 1's Link header does not have exactly one rel="last" match,
\* parallel_get_github_endpoint_paged_list returns page 1's decoded body,
\* dispatches no batch and does not end the process.
C25_MalformedLinkFallsBack ==
    MalformedLink =>
        /\ pc = "idle" /\ ret.has
        /\ ret.val = page1_result.body
        /\ tasks = << >> /\ gets = 1

\* Two rel="last" links: the one page that was fetched is what came back.
C25_Witness ==
    /\ MalformedLink /\ LastCount = 2
    /\ pc = "idle" /\ ret.val = page1_result.body /\ ret.val # << >>

\* C27: parallel_get_github_endpoint has no timeout: it returns only when
\* every request of the batch has its response, so it stays in the batch for
\* as long as one request has none; and when every request is answered in the
\* end, the call returns or exits in the end.
C27_NoTimeout ==
    /\ []((op = "many" /\ ret.has) => \A i \in 1..Len(tasks) : tasks[i].st = "done")
    /\ [][(op = "many" /\ pc = "batch" /\ pc' = "idle") =>
             \A i \in 1..Len(tasks) : tasks[i].st = "done"]_vars
    /\ (op = "many" /\ pc = "batch") ~> (pc # "batch")

\* One request is answered, the other is not, and the call has not returned.
C27_Witness ==
    /\ op = "many" /\ pc = "batch" /\ ~ret.has
    /\ Len(tasks) = 2
    /\ tasks[1].st = "done" /\ tasks[2].st = "inflight"

\* fetch_team_infos has returned its map to the script.
TeamsReturned == op = "teams" /\ pc = "idle" /\ ret.has

\* No repository is given twice.
DistinctRepos ==
    \A i, j \in 1..Len(repo_info_list) :
        repo_info_list[i].html_url = repo_info_list[j].html_url => i = j

\* The teams the first batch was answered with for the repository r.
TeamsOf(r) == team_url_results.val[r.html_url].body

\* A locator without the "{/member}" template at its end.
WithoutTemplate(url) ==
    IF Len(url) > 0 /\ url[Len(url)] = "{/member}" THEN SubSeq(url, 1, Len(url) - 1) ELSE url

\* C28: fetch_team_infos runs two chained batches.  No members request is
\* issued before every teams request is done, and, for repositories given
\* once each, the result has an entry exactly for those whose teams response
\* is not empty, holding the logins the members request of the first team was
\* answered with; a repository without teams has no entry.
C28_ChainedBatches ==
    /\ []((op = "teams" /\ pc = "batch" /\ ~team_url_results.has) =>
             gets = Len(repo_info_list))
    /\ [][(op = "teams" /\ pc = "batch" /\ gets' # gets) =>
             /\ \A i \in 1..Len(tasks) : tasks[i].st = "done"
             /\ ~team_url_results.has /\ team_url_results'.has]_vars
    /\ []((TeamsReturned /\ DistinctRepos) =>
             /\ DOMAIN ret.val =
                   {repo_info_list[i].html_url :
                       i \in {j \in 1..Len(repo_info_list) :
                                 TeamsOf(repo_info_list[j]) # << >>}}
             /\ \A i \in 1..Len(repo_info_list) :
                   LET r == repo_info_list[i]
                   IN  TeamsOf(r) # << >> =>
                         /\ ret.val[r.html_url].url = WithoutTemplate(TeamsOf(r)[1].members_url)
                         /\ \E n \in 1..Len(tasks) :
                               /\ tasks[n].key = r.html_url
                               /\ tasks[n].url = ret.val[r.html_url].url
                               /\ ret.val[r.html_url].team_members =
                                     [x \in 1..Len(tasks[n].body) |-> tasks[n].body[x].login])

\* Two repositories, one without teams and one with two: one entry, with the
\* member of the first team.
C28_Witness ==
    /\ TeamsReturned /\ DistinctRepos
    /\ Len(repo_info_list) = 2
    /\ TeamsOf(repo_info_list[1]) = << >>
    /\ Len(TeamsOf(repo_info_list[2])) = 2
    /\ DOMAIN ret.val = {repo_info_list[2].html_url}
    /\ ret.val[repo_info_list[2].html_url].team_members = <<"alice">>

---------------------------------------------------------------------------
(* Claims about a changing server, arbitrary files and other organizations *)

\* All the records of the listing l.
RECURSIVE RecordsOf(_)
RecordsOf(l) == IF l = << >> THEN << >> ELSE l[1] \o RecordsOf(Tail(l))

\* C22: when the ETag is a function of the server's listing and the listing
\* may change between any two requests, a call served from the cache returns
\* the listing the server had at that call's probe, which is the listing of
\* the probed ETag.
C22_HitIsCurrent ==
    (Returned /\ ret.from = "cache") => ret.val = RecordsOf(ListingOf(current_etag))

\* C29: every entry of scanner_cache, loaded from a file of any JSON content
\* or put there by a re-fetch, has both an ETag and Contents.
C29_EntriesComplete ==
    \A o \in DOMAIN scanner_cache : {"ETag", "Contents"} \subseteq DOMAIN scanner_cache[o]

\* The entry of organization o is the same in the caches c and d.
SameEntry(c, d, o) ==
    /\ (o \in DOMAIN c) = (o \in DOMAIN d)
    /\ o \in DOMAIN c => c[o] = d[o]

\* C30: every step of a query_repos_cached call for one organization, however
\* the call ends, leaves the scanner_cache entry and the cache file of every
\* other organization as they were, and the list the call returns holds
\* records of its own organization only.
C30_OrgsIsolated ==
    /\ [][\A o \in Orgs :
            (op' = "org" /\ org' # o)
                => /\ files'[cache_name(o)] = files[cache_name(o)]
                   /\ SameEntry(scanner_cache, scanner_cache', o)]_vars
    /\ [](Returned => \A i \in 1..Len(ret.val) : ret.val[i] = OrgRecords(org)[1])

\* A call for A has fetched and written A's list in a process that holds B's
\* entry, loaded from B's file.
C30_Witness ==
    /\ Returned /\ org = "A" /\ ret.from = "fetch" /\ ret.val # << >>
    /\ stored["A"] = "ok"
    /\ "B" \in DOMAIN scanner_cache
    /\ scanner_cache["B"] = Entry("e1", OrgRecords("B"))
    /\ files[cache_name("B")].exists

====
